---- MODULE Spec2Model ----
(***************************************************************************)
(* Allocation registry of the memory profiler (src/src/hash_table.c) with  *)
(* the async-safe output routines (src/src/profiler.c) it reports through. *)
(*                                                                         *)
(* The specifications share the registry's step actions:                   *)
(*   Spec     a single-threaded target program calling the malloc/free     *)
(*            hooks, then the shutdown report and cleanup;                 *)
(*   SpecReg  several threads calling hash_table_add / hash_table_remove / *)
(*            hash_table_find directly, interleaved at every lock,         *)
(*            table access and metadata release;                           *)
(*   SpecLive the same threads on one address, under fair scheduling;      *)
(*   SpecMT   two threads of a target program allocating and freeing one   *)
(*            address through the hooks;                                   *)
(*   SpecSeq  one thread calling the registry directly, adding an address  *)
(*            only while it has no record, then the report and cleanup.    *)
(***************************************************************************)
EXTENDS Integers, Sequences, FiniteSets, TLC

\* ------------------------------------------------------------------ bounds
MaxRecs == 2      \* metadata structs the real allocator hands out in one run
MaxErr  == 1      \* metadata structs the real allocator refuses in one run
MaxOps  == 6      \* hook calls the target program makes before it exits
MaxDepth == 8     \* return addresses the deepest stack capture yields

\* ------------------------------------------------------- program constants
MaxFrames == 7    \* frames shown per leak record
BufDigits == 30   \* digits write_hex / write_dec convert at most
HexBase   == 16
DecBase   == 10

\* --------------------------------------------------------------- the domain
NULL       == 0
MainThread == 1
Threads    == {1, 2}
RecIds     == 1 .. MaxRecs

Bases      == {4096, 8192}              \* start addresses the real allocator returns
InteriorOf(b) == b + 50                 \* an address inside the block at b
StackAddr  == 32764                     \* address of a stack variable
SizeSet    == {256, 1024}
TraceSet   == {<<17, 18>>}              \* return addresses the stack capture yields
Ptrs       == {NULL} \cup Bases         \* arguments of direct registry calls
FreeArgs   == {NULL, StackAddr} \cup Bases \cup {InteriorOf(b) : b \in Bases}
Addrs      == FreeArgs \ {NULL}

NoArgs  == [ptr |-> NULL, size |-> 0, trace |-> <<>>, is_suspicious |-> FALSE]
\* a metadata struct the real allocator has not handed out
NoInfo  == [st |-> "none", ptr |-> NULL, size |-> 0, is_suspicious |-> FALSE,
            has_trace |-> FALSE, stack_trace |-> <<>>, stack_depth |-> 0,
            tr_st |-> "none"]

VARIABLES
    g_allocations,      \* the table: record ids in uthash's insertion order
    hash_table_mutex,   \* 0 when free, else the thread holding it
    recs,               \* metadata heap: record id -> allocation_info_t
    real_malloc_ptr,    \* TRUE once the real allocator is resolved
    show_stack_traces,  \* display option read by output_leak_json
    pc,                 \* per thread: position in the function it runs
    hook,               \* per thread: the hook (if any) that called the function
    args,               \* per thread: parameters of the running function
    info,               \* per thread: hash_table_add's local info
    found,              \* per thread: local found of remove / find
    result,             \* per thread: value hash_table_find returned
    out,                \* JSON records written to stderr by the report
    nErr,               \* "[PROFILER ERROR]" lines written to stderr
    phase,              \* "run", "reported" (report done), "exited" (cleanup done)
    blocks,             \* target heap: base -> the live block there, or NoBlock
    hist,               \* per base: "never" returned, "live", "freed", "refreed"
    events,             \* corruption events emitted so far
    expected,           \* frees so far of a pointer with no live registered block
    pre,                \* per thread: what the pointer was when free() was called
    ev,                 \* per thread: events emitted by the running free()
    nOps,               \* hook calls made so far
    misuse,             \* TRUE once released metadata was read or released again
    inserted,           \* per address: an insert has returned and nothing undid it
    vis                 \* per thread in find: the insert was visible throughout

vars == <<g_allocations, hash_table_mutex, recs, real_malloc_ptr, show_stack_traces,
          pc, hook, args, info, found, result, out, nErr, phase, blocks, hist,
          events, expected, pre, ev, nOps, misuse, inserted, vis>>

envVars   == <<real_malloc_ptr, show_stack_traces>>
localVars == <<args, info, found, result>>
outVars   == <<out, phase>>
progVars  == <<blocks, hist, events, expected, pre, ev, nOps>>
ghostVars == <<misuse, inserted, vis>>

NoBlock == [live |-> FALSE, size |-> 0, is_suspicious |-> FALSE, registered |-> FALSE,
            poked |-> FALSE]
NoPre   == [kind |-> "none", inside |-> NULL, poked |-> FALSE]

\* --------------------------------------------------- serialization (profiler.c)
\* size_t and unsigned long are 64 bits wide; the sizes of the blocks live at one
\* time add up to less than the address space, so no sum or conversion here wraps.
RECURSIVE Reverse(_)
Reverse(s) == IF s = <<>> THEN <<>> ELSE Reverse(Tail(s)) \o <<Head(s)>>

HexChars == <<"0", "1", "2", "3", "4", "5", "6", "7", "8", "9",
              "a", "b", "c", "d", "e", "f">>

\* the conversion loop: least significant digit first, at most BufDigits of them
RECURSIVE Digits(_, _, _)
Digits(val, base, i) ==
    IF val > 0 /\ i < BufDigits
    THEN <<HexChars[(val % base) + 1]>> \o Digits(val \div base, base, i + 1)
    ELSE <<>>

write_hex(val) ==
    IF val = 0 THEN <<"0", "x", "0">>
    ELSE <<"0", "x">> \o Reverse(Digits(val, HexBase, 0))

\* mutant: the digits are written in the order the loop produced them
write_dec_unreversed(val) ==
    IF val = 0 THEN <<"0">> ELSE Digits(val, DecBase, 0)

write_dec(val) ==
    IF val = 0 THEN <<"0">>
    ELSE Reverse(Digits(val, DecBase, 0))

\* what a reader of the stream parses back from the text
DigitOf(c) == (CHOOSE k \in 1 .. HexBase : HexChars[k] = c) - 1
RECURSIVE ParseNum(_, _)
ParseNum(s, base) ==
    IF s = <<>> THEN 0
    ELSE ParseNum(SubSeq(s, 1, Len(s) - 1), base) * base + DigitOf(s[Len(s)])
DecValue(s) == ParseNum(s, DecBase)
HexValue(s) == ParseNum(SubSeq(s, 3, Len(s)), HexBase)

\* ------------------------------------------------------- uthash, as used here
\* mutant: the item is never linked into the table
HASH_ADD_PTR_dropped(head, r) == head

\* HASH_ADD_PTR links the item into the table; it does not look for the key first
HASH_ADD_PTR(head, r) == Append(head, r)

\* mutant: the key is not compared, any record of the table matches
HASH_FIND_PTR_any(head, key) == {head[i] : i \in DOMAIN head}

\* mutant: an address inside a tracked block matches the block's record
HASH_FIND_PTR_range(head, key) ==
    {head[i] : i \in {j \in DOMAIN head :
                        /\ recs[head[j]].ptr <= key
                        /\ key < recs[head[j]].ptr + recs[head[j]].size}}

\* HASH_FIND_PTR: the records of the table whose key is exactly `key` (which of
\* several it returns depends on the bucket order)
HASH_FIND_PTR(head, key) ==
    {head[i] : i \in {j \in DOMAIN head : recs[head[j]].ptr = key}}

\* mutant: the record stays in the table
HASH_DEL_kept(head, r) == head

HASH_DEL(head, r) == SelectSeq(head, LAMBDA x : x # r)

InList(head) == {head[i] : i \in DOMAIN head}
Listed(r)    == r \in InList(g_allocations)

\* ------------------------------------------------------ the real allocator
Unused  == {r \in RecIds : recs[r].st = "none"}
NewRec  == CHOOSE r \in Unused : \A q \in Unused : r <= q
\* calls of hash_table_add that have not yet asked for their struct
Pending == {t \in Threads : pc[t] = "add_alloc"}
CanCallAdd == Cardinality(Pending) < Cardinality(Unused)

\* real_free_ptr(found->stack_trace) / real_free_ptr(found) on record r; the
\* allocator may hand a released struct out again
FreeTrace(rs, r) == [rs EXCEPT ![r].tr_st = "freed"]
FreeInfo(rs, r)  == [rs EXCEPT ![r] = NoInfo]

\* ------------------------------------------- hash_table_add (lines 43-80)
\* mutant: the test of line 47 is missing
hash_table_add_entry_unresolved(p) ==
    IF p = NULL THEN "ret" ELSE "add_alloc"

\* lines 44-47: nothing to do for a null pointer or before the allocator is resolved
hash_table_add_entry(p) ==
    IF p = NULL \/ ~real_malloc_ptr THEN "ret" ELSE "add_alloc"

\* mutant: the size field is not written
InitInfo_nosize(a, ok) ==
    [st |-> "ready", ptr |-> a.ptr, size |-> 0,
     is_suspicious |-> a.is_suspicious,
     has_trace |-> ok,
     stack_trace |-> IF ok THEN a.trace ELSE <<>>,
     stack_depth |-> IF ok THEN Len(a.trace) ELSE 0,
     tr_st |-> IF ok THEN "live" ELSE "null"]

\* the fields written at lines 57-69; ok: the stack-trace array was obtained
InitInfo(a, ok) ==
    [st |-> "ready", ptr |-> a.ptr, size |-> a.size,
     is_suspicious |-> a.is_suspicious,
     has_trace |-> ok,
     stack_trace |-> IF ok THEN a.trace ELSE <<>>,
     stack_depth |-> IF ok THEN Len(a.trace) ELSE 0,
     tr_st |-> IF ok THEN "live" ELSE "null"]

\* lines 50-54: the struct, or the error line and an early return
hash_table_add_alloc(t) ==
    /\ pc[t] = "add_alloc"
    /\ \/ /\ Unused # {}
          /\ recs' = [recs EXCEPT ![NewRec].st = "raw"]
          /\ info' = [info EXCEPT ![t] = NewRec]
          /\ pc' = [pc EXCEPT ![t] = "add_fill"]
          /\ UNCHANGED nErr
       \/ /\ nErr < MaxErr
          /\ nErr' = nErr + 1
          /\ pc' = [pc EXCEPT ![t] = "ret"]
          /\ UNCHANGED <<recs, info>>
    /\ UNCHANGED <<g_allocations, hash_table_mutex, envVars, hook, args, found, result,
                   outVars, progVars, ghostVars>>

\* lines 57-69; oks: whether the real allocator may give or refuse the trace array
hash_table_add_fill(t, oks) ==
    /\ pc[t] = "add_fill"
    /\ \E ok \in oks : recs' = [recs EXCEPT ![info[t]] = InitInfo(args[t], ok)]
    /\ pc' = [pc EXCEPT ![t] = "add_lock"]
    /\ UNCHANGED <<g_allocations, hash_table_mutex, envVars, hook, localVars, nErr,
                   outVars, progVars, ghostVars>>

\* pthread_mutex_lock at line 72
hash_table_add_lock(t) ==
    /\ pc[t] = "add_lock"
    /\ hash_table_mutex = 0
    /\ hash_table_mutex' = t
    /\ pc' = [pc EXCEPT ![t] = "add_insert"]
    /\ UNCHANGED <<g_allocations, recs, envVars, hook, localVars, nErr, outVars,
                   progVars, ghostVars>>

hash_table_add_insert(t) ==
    /\ pc[t] = "add_insert"
    /\ g_allocations' = HASH_ADD_PTR(g_allocations, info[t])
    /\ pc' = [pc EXCEPT ![t] = "add_unlock"]
    /\ UNCHANGED <<hash_table_mutex, recs, envVars, hook, localVars, nErr, outVars,
                   progVars, ghostVars>>

\* line 79, after which the call returns
hash_table_add_unlock(t) ==
    /\ pc[t] = "add_unlock"
    /\ hash_table_mutex' = 0
    /\ pc' = [pc EXCEPT ![t] = "ret"]
    /\ inserted' = [inserted EXCEPT ![args[t].ptr] = TRUE]
    /\ UNCHANGED <<g_allocations, recs, envVars, hook, localVars, nErr, outVars,
                   progVars, misuse, vis>>

\* ---------------------------------------- hash_table_remove (lines 89-121)
\* line 90
hash_table_remove_entry(p) == IF p = NULL THEN "ret" ELSE "rm_lock"

\* a lookup by thread u that is under way for address a and has not read the table
Looking(u, a) ==
    pc[u] \in {"find_lock", "find_lookup"} /\ args[u].ptr = a

\* mutant: remove does not wait for the mutex
hash_table_remove_lock_nowait(t) ==
    /\ pc[t] = "rm_lock"
    /\ hash_table_mutex' = t
    /\ pc' = [pc EXCEPT ![t] = "rm_find"]
    /\ UNCHANGED <<g_allocations, recs, envVars, hook, localVars, nErr, outVars,
                   progVars, ghostVars>>

\* pthread_mutex_lock at line 96
hash_table_remove_lock(t) ==
    /\ pc[t] = "rm_lock"
    /\ hash_table_mutex = 0
    /\ hash_table_mutex' = t
    /\ pc' = [pc EXCEPT ![t] = "rm_find"]
    /\ UNCHANGED <<g_allocations, recs, envVars, hook, localVars, nErr, outVars,
                   progVars, ghostVars>>

\* line 100
hash_table_remove_find(t) ==
    /\ pc[t] = "rm_find"
    /\ LET hits == HASH_FIND_PTR(g_allocations, args[t].ptr) IN
         IF hits = {}
         THEN found' = [found EXCEPT ![t] = 0]
         ELSE \E f \in hits : found' = [found EXCEPT ![t] = f]
    /\ pc' = [pc EXCEPT ![t] = "rm_del"]
    /\ UNCHANGED <<g_allocations, hash_table_mutex, recs, envVars, hook, args, info,
                   result, nErr, outVars, progVars, ghostVars>>

\* lines 102-105
hash_table_remove_del(t) ==
    /\ pc[t] = "rm_del"
    /\ IF found[t] # 0
       THEN /\ g_allocations' = HASH_DEL(g_allocations, found[t])
            /\ inserted' = [inserted EXCEPT ![args[t].ptr] = FALSE]
            /\ vis' = [u \in Threads |-> vis[u] /\ ~Looking(u, args[t].ptr)]
       ELSE UNCHANGED <<g_allocations, inserted, vis>>
    /\ pc' = [pc EXCEPT ![t] = "rm_unlock"]
    /\ UNCHANGED <<hash_table_mutex, recs, envVars, hook, localVars, nErr, outVars,
                   progVars, misuse>>

\* mutant: the mutex is kept across the release of the metadata
hash_table_remove_unlock_held(t) ==
    /\ pc[t] = "rm_unlock"
    /\ pc' = [pc EXCEPT ![t] = IF found[t] = 0 THEN "ret" ELSE "rm_free_trace"]
    /\ UNCHANGED <<g_allocations, hash_table_mutex, recs, envVars, hook, localVars,
                   nErr, outVars, progVars, ghostVars>>

\* line 108, then the test of line 111
hash_table_remove_unlock(t) ==
    /\ pc[t] = "rm_unlock"
    /\ hash_table_mutex' = 0
    /\ pc' = [pc EXCEPT ![t] = IF found[t] = 0 THEN "ret" ELSE "rm_free_trace"]
    /\ UNCHANGED <<g_allocations, recs, envVars, hook, localVars, nErr, outVars,
                   progVars, ghostVars>>

\* lines 113-115: read found->stack_trace and release the array when there is one
hash_table_remove_free_trace(t) ==
    /\ pc[t] = "rm_free_trace"
    /\ LET r == found[t] IN
         /\ recs' = IF recs[r].has_trace THEN FreeTrace(recs, r) ELSE recs
         /\ misuse' = (misuse \/ recs[r].st # "ready"
                              \/ (recs[r].has_trace /\ recs[r].tr_st # "live"))
    /\ pc' = [pc EXCEPT ![t] = "rm_free_info"]
    /\ UNCHANGED <<g_allocations, hash_table_mutex, envVars, hook, localVars, nErr,
                   outVars, progVars, inserted, vis>>

\* line 116: release the struct
hash_table_remove_free_info(t) ==
    /\ pc[t] = "rm_free_info"
    /\ LET r == found[t] IN
         /\ recs' = FreeInfo(recs, r)
         /\ misuse' = (misuse \/ recs[r].st # "ready")
    /\ pc' = [pc EXCEPT ![t] = "ret"]
    /\ UNCHANGED <<g_allocations, hash_table_mutex, envVars, hook, localVars, nErr,
                   outVars, progVars, inserted, vis>>

\* ----------------------------------------- hash_table_find (lines 131-149)
\* mutant: the test of line 132 is missing
hash_table_find_entry_unchecked(p) == "find_lock"

\* line 132
hash_table_find_entry(p) == IF p = NULL THEN "find_ret" ELSE "find_lock"

\* mutant: find does not wait for the mutex
hash_table_find_lock_nowait(t) ==
    /\ pc[t] = "find_lock"
    /\ hash_table_mutex' = t
    /\ pc' = [pc EXCEPT ![t] = "find_lookup"]
    /\ UNCHANGED <<g_allocations, recs, envVars, hook, localVars, nErr, outVars,
                   progVars, ghostVars>>

\* pthread_mutex_lock at line 137
hash_table_find_lock(t) ==
    /\ pc[t] = "find_lock"
    /\ hash_table_mutex = 0
    /\ hash_table_mutex' = t
    /\ pc' = [pc EXCEPT ![t] = "find_lookup"]
    /\ UNCHANGED <<g_allocations, recs, envVars, hook, localVars, nErr, outVars,
                   progVars, ghostVars>>

hash_table_find_lookup(t) ==
    /\ pc[t] = "find_lookup"
    /\ LET hits == HASH_FIND_PTR(g_allocations, args[t].ptr) IN
         IF hits = {}
         THEN found' = [found EXCEPT ![t] = 0]
         ELSE \E f \in hits : found' = [found EXCEPT ![t] = f]
    /\ pc' = [pc EXCEPT ![t] = "find_unlock"]
    /\ UNCHANGED <<g_allocations, hash_table_mutex, recs, envVars, hook, args, info,
                   result, nErr, outVars, progVars, ghostVars>>

\* mutant: the lookup reports every pointer as found
FindResult_always(f) == 1

\* lines 145-148
FindResult(f) == IF f # 0 THEN 1 ELSE 0

\* mutant: find returns without unlocking
hash_table_find_unlock_kept(t) ==
    /\ pc[t] = "find_unlock"
    /\ result' = [result EXCEPT ![t] = FindResult(found[t])]
    /\ pc' = [pc EXCEPT ![t] = "find_ret"]
    /\ UNCHANGED <<g_allocations, hash_table_mutex, recs, envVars, hook, args, info,
                   found, nErr, outVars, progVars, ghostVars>>

\* line 143, then the return value
hash_table_find_unlock(t) ==
    /\ pc[t] = "find_unlock"
    /\ hash_table_mutex' = 0
    /\ result' = [result EXCEPT ![t] = FindResult(found[t])]
    /\ pc' = [pc EXCEPT ![t] = "find_ret"]
    /\ UNCHANGED <<g_allocations, recs, envVars, hook, args, info, found, nErr,
                   outVars, progVars, ghostVars>>

\* ------------------------------------ output_leak_json (lines 160-195)
\* dladdr: the binary a return address lies in, "unknown" when it resolves to none
BinaryName(f) == IF f % 2 = 0 THEN "test_program" ELSE "unknown"

\* mutant: every stored frame is shown
frames_to_show_all(depth) == depth

frames_to_show(depth) == IF depth < MaxFrames THEN depth ELSE MaxFrames

Frames(r) ==
    IF show_stack_traces /\ recs[r].has_trace /\ recs[r].stack_depth > 0
    THEN [i \in 1 .. frames_to_show(recs[r].stack_depth) |->
            [addr |-> write_hex(recs[r].stack_trace[i]),
             bin  |-> BinaryName(recs[r].stack_trace[i])]]
    ELSE <<>>

output_leak_json(r) ==
    [type |-> "leak", addr |-> write_hex(recs[r].ptr),
     size |-> write_dec(recs[r].size), frames |-> Frames(r)]

\* ------------------------------ hash_table_report_leaks (lines 208-252)
\* mutant: the suspicious flag is not looked at
IsConfirmed_all(r) == TRUE

\* the test of lines 217 and 236
IsConfirmed(r) == ~recs[r].is_suspicious

ConfirmedOf(head)  == SelectSeq(head, LAMBDA r : IsConfirmed(r))
SuspiciousOf(head) == SelectSeq(head, LAMBDA r : ~IsConfirmed(r))

RECURSIVE SumSize(_)
SumSize(s) ==
    IF s = <<>> THEN 0 ELSE recs[Head(s)].size + SumSize(Tail(s))

HeaderRecord(count, bytes) ==
    [type |-> "header", leaks_count |-> write_dec(count),
     total_bytes |-> write_dec(bytes)]

SummaryRecord(cc, cb, sc, sb) ==
    [type |-> "summary", real_leaks |-> write_dec(cc), real_bytes |-> write_dec(cb),
     libc_leaks |-> write_dec(sc), libc_bytes |-> write_dec(sb)]

LeakRecords(head) ==
    [i \in 1 .. Len(ConfirmedOf(head)) |-> output_leak_json(ConfirmedOf(head)[i])]

\* mutant: the header is written whether or not there are confirmed leaks
ReportOutput_header_always(head) ==
    <<HeaderRecord(Len(ConfirmedOf(head)), SumSize(ConfirmedOf(head)))>>
    \o LeakRecords(head)
    \o <<SummaryRecord(Len(ConfirmedOf(head)), SumSize(ConfirmedOf(head)),
                       Len(SuspiciousOf(head)), SumSize(SuspiciousOf(head)))>>

ReportOutput(head) ==
    LET confirmed_count  == Len(ConfirmedOf(head))
        confirmed_bytes  == SumSize(ConfirmedOf(head))
        suspicious_count == Len(SuspiciousOf(head))
        suspicious_bytes == SumSize(SuspiciousOf(head))
    IN  (IF confirmed_count > 0
         THEN <<HeaderRecord(confirmed_count, confirmed_bytes)>> \o LeakRecords(head)
         ELSE <<>>)
        \o <<SummaryRecord(confirmed_count, confirmed_bytes,
                           suspicious_count, suspicious_bytes)>>

AllIdle == \A t \in Threads : pc[t] = "idle"

\* called once, by the exit handler, when no thread is inside the registry
hash_table_report_leaks ==
    /\ phase = "run"
    /\ AllIdle
    /\ out' = out \o ReportOutput(g_allocations)
    /\ phase' = "reported"
    /\ UNCHANGED <<g_allocations, hash_table_mutex, recs, envVars, pc, hook, localVars,
                   nErr, progVars, ghostVars>>

\* ----------------------------------- hash_table_cleanup (lines 262-278)
\* mutant: the records are unlinked but neither array nor struct is released
hash_table_cleanup_unfreed ==
    /\ phase = "reported"
    /\ g_allocations' = <<>>
    /\ inserted' = [a \in Addrs |-> FALSE]
    /\ phase' = "exited"
    /\ UNCHANGED <<hash_table_mutex, recs, envVars, pc, hook, localVars, out, nErr,
                   progVars, misuse, vis>>

hash_table_cleanup ==
    /\ phase = "reported"
    /\ LET live == InList(g_allocations) IN
         /\ recs' = [r \in RecIds |-> IF r \in live THEN NoInfo ELSE recs[r]]
         /\ misuse' = (misuse \/ \E r \in live :
                          \/ recs[r].st # "ready"
                          \/ (recs[r].has_trace /\ recs[r].tr_st # "live"))
    /\ g_allocations' = <<>>
    /\ inserted' = [a \in Addrs |-> FALSE]
    /\ phase' = "exited"
    /\ UNCHANGED <<hash_table_mutex, envVars, pc, hook, localVars, out, nErr,
                   progVars, vis>>

\* -------------------------------------- hash_table_init (lines 33-35)
\* mutant: the head is left as it is
hash_table_init_kept ==
    /\ phase = "run"
    /\ AllIdle
    /\ inserted' = [a \in Addrs |-> FALSE]
    /\ UNCHANGED <<g_allocations, hash_table_mutex, recs, envVars, pc, hook, localVars,
                   nErr, outVars, progVars, misuse, vis>>

hash_table_init ==
    /\ phase = "run"
    /\ AllIdle
    /\ g_allocations' = <<>>
    /\ inserted' = [a \in Addrs |-> FALSE]
    /\ UNCHANGED <<hash_table_mutex, recs, envVars, pc, hook, localVars, nErr,
                   outVars, progVars, misuse, vis>>

\* the bootstrap resolves the real allocator once
Resolve ==
    /\ ~real_malloc_ptr
    /\ real_malloc_ptr' = TRUE
    /\ UNCHANGED <<g_allocations, hash_table_mutex, recs, show_stack_traces, pc, hook,
                   localVars, nErr, outVars, progVars, ghostVars>>

\* --------------------------------------------------- entering a function
\* thread t starts fn with parameters a
Enter(t, entry_pc, a) ==
    /\ pc' = [pc EXCEPT ![t] = entry_pc]
    /\ args' = [args EXCEPT ![t] = a]
    /\ info' = [info EXCEPT ![t] = 0]
    /\ found' = [found EXCEPT ![t] = 0]
    /\ result' = [result EXCEPT ![t] = 0]

EnterAdd(t, a) ==
    /\ Enter(t, hash_table_add_entry(a.ptr), a)
    /\ UNCHANGED vis

EnterRemove(t, p) ==
    /\ Enter(t, hash_table_remove_entry(p), [NoArgs EXCEPT !.ptr = p])
    /\ UNCHANGED vis

EnterFind(t, p) ==
    /\ Enter(t, hash_table_find_entry(p), [NoArgs EXCEPT !.ptr = p])
    /\ vis' = [vis EXCEPT ![t] = p # NULL /\ inserted[p]]

\* ------------------------------------------- threads calling the registry
RegArgs == {[ptr |-> p, size |-> s, trace |-> tr, is_suspicious |-> su] :
               p \in Ptrs, s \in {256}, tr \in TraceSet, su \in {FALSE}}

CanCall(t) == pc[t] = "idle" /\ hook[t] = "none" /\ phase = "run"

call_add(t) ==
    /\ CanCall(t)
    /\ CanCallAdd
    /\ \E a \in RegArgs : EnterAdd(t, a)
    /\ UNCHANGED <<g_allocations, hash_table_mutex, recs, envVars, hook, nErr,
                   outVars, progVars, misuse, inserted>>

call_remove(t) ==
    /\ CanCall(t)
    /\ \E p \in Ptrs : EnterRemove(t, p)
    /\ UNCHANGED <<g_allocations, hash_table_mutex, recs, envVars, hook, nErr,
                   outVars, progVars, misuse, inserted>>

call_find(t) ==
    /\ CanCall(t)
    /\ \E p \in Ptrs : EnterFind(t, p)
    /\ UNCHANGED <<g_allocations, hash_table_mutex, recs, envVars, hook, nErr,
                   outVars, progVars, misuse, inserted>>

\* the registry function returns to its caller
api_return(t) ==
    /\ pc[t] \in {"ret", "find_ret"}
    /\ hook[t] = "none"
    /\ Enter(t, "idle", NoArgs)
    /\ vis' = [vis EXCEPT ![t] = FALSE]
    /\ UNCHANGED <<g_allocations, hash_table_mutex, recs, envVars, hook, nErr,
                   outVars, progVars, misuse, inserted>>

RegistryStep(t, oks) ==
    \/ hash_table_add_alloc(t)
    \/ hash_table_add_fill(t, oks)
    \/ hash_table_add_lock(t)
    \/ hash_table_add_insert(t)
    \/ hash_table_add_unlock(t)
    \/ hash_table_remove_lock(t)
    \/ hash_table_remove_find(t)
    \/ hash_table_remove_del(t)
    \/ hash_table_remove_unlock(t)
    \/ hash_table_remove_free_trace(t)
    \/ hash_table_remove_free_info(t)
    \/ hash_table_find_lock(t)
    \/ hash_table_find_lookup(t)
    \/ hash_table_find_unlock(t)

InitCommon ==
    /\ g_allocations = <<>>
    /\ hash_table_mutex = 0
    /\ recs = [r \in RecIds |-> NoInfo]
    /\ real_malloc_ptr = FALSE
    /\ pc = [t \in Threads |-> "idle"]
    /\ hook = [t \in Threads |-> "none"]
    /\ args = [t \in Threads |-> NoArgs]
    /\ info = [t \in Threads |-> 0]
    /\ found = [t \in Threads |-> 0]
    /\ result = [t \in Threads |-> 0]
    /\ out = <<>>
    /\ nErr = 0
    /\ phase = "run"
    /\ blocks = [b \in Bases |-> NoBlock]
    /\ hist = [b \in Bases |-> "never"]
    /\ events = 0
    /\ expected = 0
    /\ pre = [t \in Threads |-> NoPre]
    /\ ev = [t \in Threads |-> 0]
    /\ nOps = 0
    /\ misuse = FALSE
    /\ inserted = [a \in Addrs |-> FALSE]
    /\ vis = [t \in Threads |-> FALSE]

InitReg == InitCommon /\ show_stack_traces = TRUE

NextReg ==
    \/ \E t \in Threads :
          \/ call_add(t)
          \/ call_remove(t)
          \/ call_find(t)
          \/ RegistryStep(t, {TRUE})
          \/ api_return(t)
    \/ Resolve
    \/ hash_table_init
    \/ hash_table_report_leaks
    \/ hash_table_cleanup

SpecReg == InitReg /\ [][NextReg]_vars

\* The scheduler lets every thread that can take a step take one, and a thread
\* waiting in pthread_mutex_lock gets the mutex if it is free again and again.
Fairness ==
    \A t \in Threads :
        /\ WF_vars(RegistryStep(t, {TRUE}) \/ api_return(t))
        /\ SF_vars(hash_table_add_lock(t) \/ hash_table_remove_lock(t)
                       \/ hash_table_find_lock(t))

\* two threads that keep calling the registry for one address, or for none
LivePtrs == {NULL} \cup {b \in Bases : \A c \in Bases : b <= c}

NextLive ==
    \/ \E t \in Threads :
          \/ call_add(t) /\ args'[t].ptr \in LivePtrs
          \/ call_remove(t) /\ args'[t].ptr \in LivePtrs
          \/ call_find(t) /\ args'[t].ptr \in LivePtrs
          \/ RegistryStep(t, {TRUE})
          \/ api_return(t)
    \/ Resolve

SpecLive == InitReg /\ [][NextLive]_vars /\ Fairness

\* ------------------------------------------------ the hooks (spec.md 4.2, 4.3)
\* The interceptor is not part of the sources at hand; malloc and free are
\* modelled from the specification: allocate, then register; look the pointer
\* up, remove the record of a valid free, report any other, and pass the call on.

\* the live block, if any, that address p lies strictly inside
InsideOf(p) ==
    IF \E b \in Bases : blocks[b].live /\ p = InteriorOf(b) /\ p < b + blocks[b].size
    THEN CHOOSE b \in Bases : blocks[b].live /\ p = InteriorOf(b)
    ELSE NULL

\* what the target program is doing when it frees p
Classify(p) ==
    [kind   |-> IF p \in Bases
                THEN IF blocks[p].live
                     THEN IF blocks[p].registered THEN "registered" ELSE "unregistered"
                     ELSE IF hist[p] \in {"freed", "refreed"} THEN "freed" ELSE "never"
                ELSE "never",
     inside |-> InsideOf(p),
     poked  |-> p \in Bases /\ blocks[p].poked]

CanHook(t) ==
    /\ pc[t] = "idle" /\ hook[t] = "none" /\ phase = "run"
    /\ real_malloc_ptr
    /\ nOps < MaxOps

malloc_call(t) ==
    /\ CanHook(t)
    /\ CanCallAdd
    /\ nOps' = nOps + 1
    /\ \E b \in Bases \cup {NULL}, sz \in SizeSet, tr \in TraceSet, su \in BOOLEAN :
          IF b = NULL
          THEN UNCHANGED <<pc, hook, localVars, blocks, hist>>
          ELSE /\ ~blocks[b].live
               /\ blocks' = [blocks EXCEPT ![b] =
                               [live |-> TRUE, size |-> sz, is_suspicious |-> su,
                                registered |-> FALSE, poked |-> FALSE]]
               /\ hist' = [hist EXCEPT ![b] = "live"]
               /\ hook' = [hook EXCEPT ![t] = "malloc"]
               /\ Enter(t, hash_table_add_entry(b),
                        [ptr |-> b, size |-> sz, trace |-> tr, is_suspicious |-> su])
    /\ UNCHANGED <<g_allocations, hash_table_mutex, recs, envVars, nErr, outVars,
                   events, expected, pre, ev, ghostVars>>

malloc_return(t) ==
    /\ pc[t] = "ret"
    /\ hook[t] = "malloc"
    /\ blocks' = [blocks EXCEPT ![args[t].ptr].registered = (info[t] # 0)]
    /\ hook' = [hook EXCEPT ![t] = "none"]
    /\ Enter(t, "idle", NoArgs)
    /\ UNCHANGED <<g_allocations, hash_table_mutex, recs, envVars, nErr, outVars,
                   hist, events, expected, pre, ev, nOps, ghostVars>>

free_call(t) ==
    /\ CanHook(t)
    /\ nOps' = nOps + 1
    /\ \E p \in FreeArgs :
          IF p = NULL
          THEN UNCHANGED <<pc, hook, localVars, blocks, expected, pre, ev, vis>>
          ELSE /\ pre' = [pre EXCEPT ![t] = Classify(p)]
               /\ ev' = [ev EXCEPT ![t] = 0]
               /\ expected' = IF Classify(p).kind = "registered"
                              THEN expected ELSE expected + 1
               /\ blocks' = IF InsideOf(p) # NULL
                            THEN [blocks EXCEPT ![InsideOf(p)].poked = TRUE]
                            ELSE blocks
               /\ hook' = [hook EXCEPT ![t] = "free"]
               /\ EnterFind(t, p)
    /\ UNCHANGED <<g_allocations, hash_table_mutex, recs, envVars, nErr, outVars,
                   hist, events, misuse, inserted>>

\* classifyFree: valid when the lookup found the pointer, a corruption event otherwise
free_after_find(t) ==
    /\ pc[t] = "find_ret"
    /\ hook[t] = "free"
    /\ IF result[t] = 1
       THEN /\ EnterRemove(t, args[t].ptr)
            /\ UNCHANGED <<events, ev>>
       ELSE /\ events' = events + 1
            /\ ev' = [ev EXCEPT ![t] = @ + 1]
            /\ pc' = [pc EXCEPT ![t] = "free_real"]
            /\ UNCHANGED <<localVars, vis>>
    /\ UNCHANGED <<g_allocations, hash_table_mutex, recs, envVars, hook, nErr, outVars,
                   blocks, hist, expected, pre, nOps, misuse, inserted>>

free_after_remove(t) ==
    /\ pc[t] = "ret"
    /\ hook[t] = "free"
    /\ pc' = [pc EXCEPT ![t] = "free_real"]
    /\ UNCHANGED <<g_allocations, hash_table_mutex, recs, envVars, hook, localVars,
                   nErr, outVars, progVars, ghostVars>>

\* the call is passed on to the real free, which releases the block when p is one
free_real(t) ==
    /\ pc[t] = "free_real"
    /\ LET p == args[t].ptr IN
         IF p \in Bases /\ blocks[p].live
         THEN /\ blocks' = [blocks EXCEPT ![p] = NoBlock]
              /\ hist' = [hist EXCEPT ![p] = "freed"]
         ELSE /\ hist' = IF p \in Bases /\ hist[p] = "freed"
                         THEN [hist EXCEPT ![p] = "refreed"] ELSE hist
              /\ UNCHANGED blocks
    /\ pc' = [pc EXCEPT ![t] = "free_done"]
    /\ UNCHANGED <<g_allocations, hash_table_mutex, recs, envVars, hook, localVars,
                   nErr, outVars, events, expected, pre, ev, nOps, ghostVars>>

free_return(t) ==
    /\ pc[t] = "free_done"
    /\ hook' = [hook EXCEPT ![t] = "none"]
    /\ pre' = [pre EXCEPT ![t] = NoPre]
    /\ ev' = [ev EXCEPT ![t] = 0]
    /\ vis' = [vis EXCEPT ![t] = FALSE]
    /\ Enter(t, "idle", NoArgs)
    /\ UNCHANGED <<g_allocations, hash_table_mutex, recs, envVars, nErr, outVars,
                   blocks, hist, events, expected, nOps, misuse, inserted>>

Init == InitCommon /\ show_stack_traces \in BOOLEAN

Next ==
    \/ \E t \in {MainThread} :
          \/ malloc_call(t)
          \/ malloc_return(t)
          \/ free_call(t)
          \/ free_after_find(t)
          \/ free_after_remove(t)
          \/ free_real(t)
          \/ free_return(t)
          \/ RegistryStep(t, BOOLEAN)
    \/ Resolve
    \/ hash_table_report_leaks
    \/ hash_table_cleanup

Spec == Init /\ [][Next]_vars

\* a target program of two threads that allocate and free one address, each
\* free running the lookup and the removal as two calls of the registry
NextMT ==
    \/ \E t \in Threads :
          \/ malloc_call(t) /\ args'[t] \in RegArgs /\ args'[t].ptr \in LivePtrs
          \/ malloc_return(t)
          \/ free_call(t) /\ args'[t].ptr \in LivePtrs
          \/ free_after_find(t)
          \/ free_after_remove(t)
          \/ free_real(t)
          \/ free_return(t)
          \/ RegistryStep(t, {TRUE})
    \/ Resolve

SpecMT == InitReg /\ [][NextMT]_vars

\* one thread calling the registry directly, an address being added only while
\* the table has no record of it, with traces short and deep, and freeing the
\* null pointer through the hook; then the report and the cleanup
DeepTrace == [i \in 1 .. MaxDepth |-> HexBase + i]
SeqArgs == {[ptr |-> p, size |-> s, trace |-> tr, is_suspicious |-> FALSE] :
               p \in Ptrs, s \in SizeSet, tr \in TraceSet \cup {DeepTrace}}

seq_add(t) ==
    /\ CanCall(t)
    /\ CanCallAdd
    /\ \E a \in SeqArgs :
          /\ HASH_FIND_PTR(g_allocations, a.ptr) = {}
          /\ EnterAdd(t, a)
    /\ UNCHANGED <<g_allocations, hash_table_mutex, recs, envVars, hook, nErr,
                   outVars, progVars, misuse, inserted>>

NextSeq ==
    \/ \E t \in {MainThread} :
          \/ seq_add(t)
          \/ call_remove(t)
          \/ call_find(t)
          \/ api_return(t)
          \/ RegistryStep(t, BOOLEAN)
          \/ free_call(t) /\ UNCHANGED pc
    \/ Resolve
    \/ hash_table_report_leaks
    \/ hash_table_cleanup

SpecSeq == Init /\ [][NextSeq]_vars

\* ===================================================== properties

LeakIdx    == {i \in DOMAIN out : out[i].type = "leak"}
HeaderIdx  == {i \in DOMAIN out : out[i].type = "header"}
SummaryIdx == {i \in DOMAIN out : out[i].type = "summary"}
LeaksAt(a) == {i \in LeakIdx : HexValue(out[i].addr) = a}

\* sizes, read back from the leak records at indices S
RECURSIVE SumLeakSizes(_)
SumLeakSizes(S) ==
    IF S = {} THEN 0
    ELSE LET x == CHOOSE y \in S : TRUE
         IN  DecValue(out[x].size) + SumLeakSizes(S \ {x})

\* sizes of the records S
RECURSIVE SumRecSizes(_)
SumRecSizes(S) ==
    IF S = {} THEN 0
    ELSE LET x == CHOOSE y \in S : TRUE IN recs[x].size + SumRecSizes(S \ {x})

\* unfreed allocations attributed to the target program
Leaked(b)       == blocks[b].live /\ ~blocks[b].is_suspicious
\* ... for which hash_table_add obtained its metadata
LeakedTracked(b) == Leaked(b) /\ blocks[b].registered

HeaderAgrees ==
    \A h \in HeaderIdx :
        /\ DecValue(out[h].leaks_count) = Cardinality(LeakIdx)
        /\ DecValue(out[h].total_bytes) = SumLeakSizes(LeakIdx)

LeakRecordsFor(Which(_)) ==
    /\ \A b \in Bases : Which(b) =>
          /\ Cardinality(LeaksAt(b)) = 1
          /\ \A i \in LeaksAt(b) : DecValue(out[i].size) = blocks[b].size
    /\ \A i \in LeakIdx : \E b \in Bases : HexValue(out[i].addr) = b /\ Leaked(b)
    /\ HeaderAgrees

\* C1 as claimed: after the report, every unfreed non-suspicious allocation has
\* exactly one leak record with its address and size, no freed allocation has
\* one, and the header's count and bytes are those of the leak records.
C1_EveryLeakReported == phase # "run" => LeakRecordsFor(Leaked)

\* C1 (amended): the same for every unfreed non-suspicious allocation whose
\* tracking metadata hash_table_add could allocate; an allocation whose metadata
\* was refused is untracked and has no leak record.
C1_TrackedLeaksReported ==
    phase # "run" =>
        /\ LeakRecordsFor(LeakedTracked)
        /\ \A b \in Bases : Leaked(b) /\ ~blocks[b].registered => LeaksAt(b) = {}

C1_Witness ==
    /\ phase # "run"
    /\ \A b \in Bases : LeakedTracked(b)
    /\ \E a, b \in Bases : blocks[a].size # blocks[b].size
    /\ nOps >= 4
    /\ Cardinality(LeakIdx) = 2

\* C2: when every allocation made was freed before shutdown, the report is the
\* summary record alone, with real_leaks 0 and real_bytes 0.
C2_NoLeakNoHeader ==
    (phase # "run" /\ \A b \in Bases : ~blocks[b].live) =>
        /\ Len(out) = 1
        /\ out[1].type = "summary"
        /\ out[1].real_leaks = <<"0">>
        /\ out[1].real_bytes = <<"0">>

C2_Witness ==
    /\ phase # "run"
    /\ \A b \in Bases : hist[b] = "freed"
    /\ events = 0

\* the record of address a is gone from the table
NoRecord(a) == HASH_FIND_PTR(g_allocations, a) = {}

\* C3 as claimed: the first free of a live pointer emits no corruption event,
\* the second free of it emits exactly one.
C3_SecondFreeOnly ==
    pc[MainThread] = "free_done" =>
        /\ pre[MainThread].kind \in {"registered", "unregistered"} => ev[MainThread] = 0
        /\ pre[MainThread].kind = "freed" => ev[MainThread] = 1

\* C3 (amended): for a pointer whose record was registered, the first free
\* emits no event and removes the record, the second emits exactly one; over a
\* run the events number the frees of pointers that had no live registered block.
C3_TrackedSecondFreeOnly ==
    /\ pc[MainThread] = "free_done" =>
          /\ pre[MainThread].kind = "registered" => ev[MainThread] = 0 /\ NoRecord(args[MainThread].ptr)
          /\ pre[MainThread].kind = "freed" => ev[MainThread] = 1
    /\ pc[MainThread] \in {"idle", "free_done"} => events = expected

C3_Witness ==
    /\ pc[MainThread] = "free_done"
    /\ pre[MainThread].kind = "freed"
    /\ ev[MainThread] = 1
    /\ \A b \in Bases : hist[b] = "refreed"
    /\ nErr = 0
    /\ events = 2

\* C4: a free of an address no allocation returned emits exactly one event, and
\* no step of that call changes the table or a record.
C4_InvalidFree ==
    /\ [](pc[MainThread] = "free_done" /\ pre[MainThread].kind = "never" => ev[MainThread] = 1)
    /\ [][pre[MainThread].kind = "never" => UNCHANGED <<g_allocations, recs>>]_vars

C4_Witness ==
    /\ pc[MainThread] = "free_done"
    /\ pre[MainThread].kind = "never"
    /\ args[MainThread].ptr = StackAddr
    /\ ev[MainThread] = 1
    /\ Len(g_allocations) = 2

\* the table holds exactly one record for block b, with the block's size and flag
RecordIntact(b) ==
    /\ Cardinality(HASH_FIND_PTR(g_allocations, b)) = 1
    /\ \A r \in HASH_FIND_PTR(g_allocations, b) :
          /\ recs[r].size = blocks[b].size
          /\ recs[r].is_suspicious = blocks[b].is_suspicious

\* C5 as claimed: a free of an address inside a live block emits exactly one
\* event and leaves the block's record as it was; the free of the block's start
\* address that follows emits none and leaves no record.
C5_InteriorFree ==
    pc[MainThread] = "free_done" =>
        /\ pre[MainThread].inside # NULL =>
              /\ ev[MainThread] = 1
              /\ blocks[pre[MainThread].inside].registered => RecordIntact(pre[MainThread].inside)
        /\ (pre[MainThread].kind \in {"registered", "unregistered"} /\ pre[MainThread].poked) =>
              ev[MainThread] = 0 /\ NoRecord(args[MainThread].ptr)

\* C5 (amended): the same for a block whose record was registered.
C5_TrackedInteriorFree ==
    pc[MainThread] = "free_done" =>
        /\ pre[MainThread].inside # NULL =>
              /\ ev[MainThread] = 1
              /\ blocks[pre[MainThread].inside].registered => RecordIntact(pre[MainThread].inside)
        /\ (pre[MainThread].kind = "registered" /\ pre[MainThread].poked) =>
              ev[MainThread] = 0 /\ NoRecord(args[MainThread].ptr)

C5_Witness ==
    /\ pc[MainThread] = "free_done"
    /\ pre[MainThread].kind = "registered"
    /\ pre[MainThread].poked
    /\ ev[MainThread] = 0
    /\ events = 1

\* C6: no two records of the table have the same address.
C6_OneRecordPerAddress ==
    \A i, j \in DOMAIN g_allocations :
        i # j => recs[g_allocations[i]].ptr # recs[g_allocations[j]].ptr

ConfirmedRecs  == {r \in InList(g_allocations) : ~recs[r].is_suspicious}
SuspiciousRecs == {r \in InList(g_allocations) : recs[r].is_suspicious}

\* C7: the report is the header exactly when a non-suspicious record is live,
\* then only leak records, then the one summary record, which comes last.
C7_ReportShape ==
    phase = "reported" =>
        /\ Len(out) >= 1
        /\ SummaryIdx = {Len(out)}
        /\ (HeaderIdx # {}) <=> (ConfirmedRecs # {})
        /\ HeaderIdx \subseteq {1}
        /\ \A i \in DOMAIN out : i \in HeaderIdx \cup LeakIdx \cup SummaryIdx

C7_Witness ==
    /\ phase = "reported"
    /\ Len(out) = 3
    /\ SuspiciousRecs # {}
    /\ out[1].type = "header" /\ out[2].type = "leak" /\ out[3].type = "summary"

\* C8: the summary counts each live record once, as suspicious when its flag is
\* set and as confirmed otherwise; suspicious records have no leak record and
\* no share in the header.
C8_Partition ==
    phase = "reported" =>
        \A s \in SummaryIdx :
            /\ DecValue(out[s].real_leaks) = Cardinality(ConfirmedRecs)
            /\ DecValue(out[s].libc_leaks) = Cardinality(SuspiciousRecs)
            /\ DecValue(out[s].real_leaks) + DecValue(out[s].libc_leaks)
                  = Len(g_allocations)
            /\ DecValue(out[s].real_bytes) = SumRecSizes(ConfirmedRecs)
            /\ DecValue(out[s].libc_bytes) = SumRecSizes(SuspiciousRecs)
            /\ DecValue(out[s].real_bytes) + DecValue(out[s].libc_bytes)
                  = SumRecSizes(InList(g_allocations))
            /\ \A r \in SuspiciousRecs : LeaksAt(recs[r].ptr) = {}
            /\ \A r \in ConfirmedRecs : Cardinality(LeaksAt(recs[r].ptr)) = 1
            /\ \A h \in HeaderIdx :
                  /\ DecValue(out[h].leaks_count) = Cardinality(ConfirmedRecs)
                  /\ DecValue(out[h].total_bytes) = SumRecSizes(ConfirmedRecs)

C8_Witness ==
    /\ phase = "reported"
    /\ Cardinality(ConfirmedRecs) = 1
    /\ Cardinality(SuspiciousRecs) = 1
    /\ \E a, b \in Bases : blocks[a].size # blocks[b].size

\* a remove call that holds a record it found
Holding(t) == pc[t] \in {"rm_unlock", "rm_free_trace", "rm_free_info"} /\ found[t] # 0
InRemove(t) == pc[t] \in {"rm_del", "rm_unlock", "rm_free_trace", "rm_free_info"}

\* C9: a record found by a remove call is out of the table, still allocated, and
\* found by no other remove call; no metadata is released twice or read after
\* its release.
C9_DestroyedOnce ==
    /\ ~misuse
    /\ \A t \in Threads : Holding(t) =>
          /\ ~Listed(found[t])
          /\ recs[found[t]].st = "ready"
          /\ \A u \in Threads \ {t} : InRemove(u) => found[u] # found[t]

C9_Witness ==
    \E t, u \in Threads :
        /\ t # u
        /\ pc[t] = "rm_free_info"
        /\ pc[u] = "rm_unlock"
        /\ found[u] = 0
        /\ args[u].ptr = args[t].ptr

\* C10: a lookup that starts after an insert of the address returned, with no
\* removal, cleanup or reset of it before the lookup reads the table, returns
\* 1; every record in the table is fully initialised.
C10_InsertVisible ==
    /\ \A t \in Threads : pc[t] = "find_ret" /\ vis[t] => result[t] = 1
    /\ \A r \in InList(g_allocations) : recs[r].st = "ready"
    /\ \A a \in Bases : inserted[a] => ~NoRecord(a)

C10_Witness ==
    \E t, u \in Threads :
        /\ t # u
        /\ pc[t] = "find_ret" /\ vis[t] /\ result[t] = 1
        /\ pc[u] = "rm_lock" /\ args[u].ptr = args[t].ptr

\* the thread, if any, that takes the step
Stepping(t) == pc'[t] # pc[t]
\* positions from which the next step allocates or releases metadata
AtMetadata(t) == pc[t] \in {"add_alloc", "add_fill", "rm_free_trace", "rm_free_info"}
\* positions from which the next step reads or writes the table, or unlocks
InCritical(t) == pc[t] \in {"add_insert", "add_unlock", "rm_find", "rm_del",
                            "rm_unlock", "find_lookup", "find_unlock"}

\* C11: a thread that is about to allocate or release a record struct or a
\* stack-trace array does not hold the mutex, and no step that allocates or
\* releases metadata is taken by the thread that holds the mutex.
C11_NoMetadataUnderLock ==
    /\ [](\A t \in Threads : AtMetadata(t) => hash_table_mutex # t)
    /\ [][recs' # recs => \A t \in Threads : Stepping(t) => hash_table_mutex # t]_vars

C11_Witness ==
    \E t, u \in Threads :
        /\ t # u
        /\ pc[t] = "rm_free_info" /\ found[t] # 0
        /\ hash_table_mutex = u
        /\ pc[u] = "add_insert" /\ info[u] # 0

\* insert, remove and contains touch the table only under the mutex, one thread
\* at a time
C12_CallsUnderLock ==
    /\ [](\A t \in Threads : InCritical(t) <=> hash_table_mutex = t)
    /\ [](Cardinality({t \in Threads : InCritical(t)}) <= 1)
    /\ [][\A t \in Threads : Stepping(t) /\ g_allocations' # g_allocations
                                 => hash_table_mutex = t]_vars

\* C12 as claimed: insert, remove, contains and the report's iteration access
\* the table only while the mutex is held; only the cleanup at exit does not.
C12_AllUnderLock ==
    /\ C12_CallsUnderLock
    /\ [][out' # out => hash_table_mutex # 0]_vars
    /\ [][(g_allocations' # g_allocations /\ phase = "run") => hash_table_mutex # 0]_vars

\* C12 (amended): insert, remove and contains access the table only while
\* holding the mutex, so no two of them access it at the same time; the report,
\* the reset and the cleanup access it without the mutex, at a time when no
\* thread is inside the registry.
C12_SerializedCalls ==
    /\ C12_CallsUnderLock
    /\ [][(out' # out \/ (g_allocations' # g_allocations /\ \A t \in Threads : ~Stepping(t)))
            => hash_table_mutex = 0 /\ AllIdle]_vars

C12_Witness ==
    \E t, u \in Threads :
        /\ t # u
        /\ pc[t] = "rm_del" /\ found[t] # 0
        /\ pc[u] = "find_lock" /\ args[u].ptr = args[t].ptr

\* a call of hash_table_add (its trace parameter is never empty here)
AddCall(a) == a.trace # <<>>
\* positions of hash_table_add past its entry tests
InAdd(t) == pc[t] \in {"add_alloc", "add_fill", "add_lock", "add_insert", "add_unlock"}

\* C13: a hash_table_add that finds the allocator unresolved, or gets no struct
\* from it, returns at once: none of its steps takes the mutex or changes the
\* table or a record, it is left with no struct, and its caller carries on.
C13_FailedInsert ==
    /\ [](\A t \in Threads : InAdd(t) => real_malloc_ptr)
    /\ [](\A t \in Threads :
            (pc[t] = "ret" /\ AddCall(args[t]) /\ info[t] = 0) =>
                hash_table_mutex # t /\ ENABLED api_return(t))
    /\ [][\A t \in Threads :
            (AddCall(args'[t]) /\ pc'[t] = "ret" /\ pc[t] \in {"idle", "add_alloc"})
                => UNCHANGED <<g_allocations, hash_table_mutex, recs>>]_vars

C13_Witness ==
    \E t, u \in Threads :
        /\ t # u
        /\ pc[t] = "ret" /\ AddCall(args[t]) /\ args[t].ptr # NULL /\ info[t] = 0
        /\ nErr = 1
        /\ hash_table_mutex = u
        /\ NoRecord(args[t].ptr)

\* what hash_table_find returns for address a when it runs on table head
Contains(head, a) ==
    IF a = NULL THEN 0
    ELSE FindResult(IF HASH_FIND_PTR(head, a) = {} THEN 0
                    ELSE CHOOSE f \in HASH_FIND_PTR(head, a) : TRUE)

\* the registry as a lookup and a report see it
Emptied ==
    /\ \A a \in Addrs : Contains(g_allocations, a) = 0
    /\ ReportOutput(g_allocations) = <<SummaryRecord(0, 0, 0, 0)>>

\* C15: a reset leaves a table in which no address is found and of which a
\* report counts 0 confirmed and 0 suspicious records, whatever was in it; a
\* second reset right after the first changes nothing.
C15_ResetEmpties ==
    /\ [][hash_table_init => Emptied']_vars
    /\ [][hash_table_init => (ENABLED (hash_table_init /\ UNCHANGED vars))']_vars

\* a reset has dropped records from a table that held some
C15_Witness ==
    /\ phase = "run"
    /\ AllIdle
    /\ Emptied
    /\ Cardinality({r \in RecIds : recs[r].st = "ready"}) = 2

\* C18: the cleanup leaves an empty table; each record that was in it was
\* allocated, with its array if it had one, and is released by the cleanup;
\* a record removed earlier is not touched, nothing is released twice, and at
\* exit no metadata is left allocated.
C18_CleanupDrains ==
    /\ [](phase = "exited" =>
            /\ g_allocations = <<>>
            /\ \A r \in RecIds : recs[r] = NoInfo
            /\ ~misuse)
    /\ [][hash_table_cleanup =>
            \A r \in RecIds :
                IF Listed(r)
                THEN /\ recs[r].st = "ready"
                     /\ recs[r].has_trace => recs[r].tr_st = "live"
                     /\ recs'[r] = NoInfo
                ELSE recs'[r] = recs[r] /\ recs[r] = NoInfo]_vars

C18_Witness ==
    /\ phase = "exited"
    /\ g_allocations = <<>>
    /\ Cardinality(LeakIdx) = 1
    /\ \E b \in Bases : hist[b] = "freed"
    /\ \E b \in Bases : blocks[b].live /\ blocks[b].registered
    /\ events = 0

\* positions at which a call has returned, or none is under way
Returned(t) == pc[t] \in {"idle", "ret", "find_ret"}

BothFreed(t, u) ==
    /\ t # u
    /\ pc[t] = "free_done" /\ pc[u] = "free_done"
    /\ args[t].ptr = args[u].ptr
    /\ pre[t].kind = "registered" /\ pre[u].kind = "registered"

\* C16: of two threads that free the same live pointer at the same time, each
\* by hash_table_find and then hash_table_remove, exactly one emits a
\* corruption event and the other is taken as valid.
C16_OneValidOneReported ==
    \A t, u \in Threads : BothFreed(t, u) => ev[t] + ev[u] = 1

\* C14: no record has the null address; a call of insert, remove or contains
\* with the null address goes straight to its return, without the mutex, without
\* a struct and, for contains, with the value 0, and no step of it changes the
\* table or a record; freeing null changes nothing and emits no event; no leak
\* record is written for the null address.
C14_NullUntracked ==
    /\ [](\A r \in InList(g_allocations) : recs[r].ptr # NULL)
    /\ [](\A t \in Threads : (pc[t] # "idle" /\ args[t].ptr = NULL) =>
            /\ pc[t] \in {"ret", "find_ret"}
            /\ hash_table_mutex # t
            /\ info[t] = 0 /\ found[t] = 0
            /\ result[t] = 0)
    /\ [][\A t \in Threads : (Stepping(t) /\ args'[t].ptr = NULL) =>
            UNCHANGED <<g_allocations, hash_table_mutex, recs, events, nErr, out>>]_vars
    /\ [][nOps' # nOps =>
            UNCHANGED <<g_allocations, hash_table_mutex, recs, events, nErr, out, pc>>]_vars
    /\ [](\A i \in LeakIdx : HexValue(out[i].addr) # NULL)

C14_Witness ==
    /\ pc[MainThread] = "find_ret"
    /\ args[MainThread].ptr = NULL
    /\ result[MainThread] = 0
    /\ Len(g_allocations) = 2
    /\ nOps > 0
    /\ events = 0

\* the abstract registry: the addresses whose last completed call was an insert
LiveSet == {a \in Bases : inserted[a]}

\* C17: while each address is inserted only when the table has no record of it,
\* the table holds one record for each address of the abstract set and no
\* other; a lookup returns 1 exactly for the addresses in the set; an insert
\* that returns has linked its own struct, with the size it was given, as the
\* only record of the address; a remove that finds nothing changes nothing.
C17_RefinesSet ==
    /\ [](hash_table_mutex = 0 =>
            /\ \A a \in Bases : a \in LiveSet <=> HASH_FIND_PTR(g_allocations, a) # {}
            /\ Len(g_allocations) = Cardinality(LiveSet))
    /\ [](\A t \in Threads : (pc[t] = "find_ret" /\ args[t].ptr # NULL) =>
            (result[t] = 1 <=> args[t].ptr \in LiveSet))
    /\ [](\A t \in Threads : (pc[t] = "ret" /\ info[t] # 0) =>
            /\ HASH_FIND_PTR(g_allocations, args[t].ptr) = {info[t]}
            /\ recs[info[t]].size = args[t].size
            /\ args[t].ptr \in LiveSet)
    /\ [][\A t \in Threads : (Stepping(t) /\ InRemove(t) /\ found[t] = 0) =>
            UNCHANGED <<g_allocations, recs, inserted>>]_vars

\* the struct released by a remove has been handed out again, for the address
\* that was removed, and is linked behind the record that stayed
C17_Witness ==
    /\ pc[MainThread] = "ret"
    /\ info[MainThread] = 1
    /\ g_allocations = <<2, 1>>
    /\ recs[1].size # recs[2].size

\* the leak record written for record r
LeakOf(r) == CHOOSE i \in LeakIdx : HexValue(out[i].addr) = recs[r].ptr
Shown(r) ==
    IF show_stack_traces /\ recs[r].has_trace
    THEN IF recs[r].stack_depth < MaxFrames THEN recs[r].stack_depth ELSE MaxFrames
    ELSE 0

\* C20: a struct whose array was refused is linked all the same, with depth 0,
\* and one that got its array holds the captured addresses; in the report each
\* record has its leak record, whose frames are the first min(depth, 7) stored
\* addresses in order when traces are shown and the array is there, and none
\* otherwise.
C20_FramesBounded ==
    /\ \A t \in Threads : (pc[t] = "ret" /\ info[t] # 0) =>
          /\ Listed(info[t])
          /\ IF recs[info[t]].has_trace
             THEN /\ recs[info[t]].stack_trace = args[t].trace
                  /\ recs[info[t]].stack_depth = Len(args[t].trace)
             ELSE recs[info[t]].stack_depth = 0
    /\ phase = "reported" =>
          \A r \in ConfirmedRecs :
              /\ LeaksAt(recs[r].ptr) # {}
              /\ Len(out[LeakOf(r)].frames) = Shown(r)
              /\ Len(out[LeakOf(r)].frames) <= MaxFrames
              /\ \A k \in 1 .. Shown(r) :
                    HexValue(out[LeakOf(r)].frames[k].addr) = recs[r].stack_trace[k]

C20_Witness ==
    /\ phase = "reported"
    /\ show_stack_traces
    /\ \E r, q \in ConfirmedRecs :
          /\ recs[r].stack_depth > MaxFrames
          /\ Len(out[LeakOf(r)].frames) = MaxFrames
          /\ ~recs[q].has_trace
          /\ out[LeakOf(q)].frames = <<>>

====
